---- MODULE Spec2Model ----
(***************************************************************************)
(* Task Service of server.py: the FastAPI handlers over the MongoDB        *)
(* collection db.tasks.  Every handler is a coroutine; each `await` on the *)
(* store is a point where other requests run.  An action below is one      *)
(* store call being applied, together with the synchronous handler code    *)
(* around it: what runs before the call is issued (for a handler's first   *)
(* call: from the arrival of the request) and what runs on its answer up   *)
(* to the next `await` or the response.  create_task does work of its own  *)
(* before its only store call (it draws the id and the timestamps), so its *)
(* arrival is an action of its own.                                        *)
(*                                                                         *)
(* Optional[T] values are sequences of length <= 1: <<>> is None and <<v>> *)
(* is the value v.  Timestamps are integers in the store's resolution      *)
(* (BSON datetimes are milliseconds), read from the variable `now`.        *)
(***************************************************************************)
EXTENDS Integers, Sequences, FiniteSets, TLC

\* ---------------------------------------------------------------- bounds
NumClients == 2
MaxUuid == 2
MaxClock == 1

Clients == 1..NumClients

\* ----------------------------------------------------------------- enums
TODO == "To Do"
IN_PROGRESS == "In Progress"
DONE == "Done"
TaskStatus == {TODO, IN_PROGRESS, DONE}

HIGH == "High"
MEDIUM == "Medium"
LOW == "Low"
TaskPriority == {HIGH, MEDIUM, LOW}

None == <<>>
Some(v) == <<v>>
Opt(S) == {None} \cup {Some(v) : v \in S}

\* ---------------------------------------------------------------- state
VARIABLES
    db,       \* the documents of db.tasks (a set of Task documents)
    now,      \* datetime.utcnow()
    uuids,    \* how many uuid4() values have been drawn
    pc,       \* pc[c]: the store call the request of client c awaits, or "idle"
    req,      \* req[c]: the request's path/query/body parameters
    loc,      \* loc[c]: the handler's local variables
    sent,     \* the response the last step sent (with its request), None if it sent none
    deleted,  \* history: ids whose delete_task answered 200
    wrote,    \* history: wrote[c] iff the request's own update_one modified a document
    dirty     \* history: dirty[c] iff a write was applied since the request's first count

vars == <<db, now, uuids, pc, req, loc, sent, deleted, wrote, dirty>>

\* mutant of uuid4: an id generator that hands out the same id again
uuid4Reused(k) == ToString(1)

\* uuid4(): the k-th value drawn; distinct draws give distinct strings
uuid4(k) == ToString(k)

\* every id a request may name: any uuid, drawn already or not
TaskIds == {uuid4(k) : k \in 1..MaxUuid}

\* ------------------------------------------------------------ responses
Ok(body) == [code |-> 200, detail |-> "", body |-> Some(body)]
HTTPException(status_code, detail) == [code |-> status_code, detail |-> detail, body |-> None]
\* an exception that is no HTTPException escapes the handler: the framework answers 500
Unhandled == [code |-> 500, detail |-> "Internal Server Error", body |-> None]

\* ------------------------------------------------------------ documents
\* Subtask(**s): a missing id is filled by uuid4(); k uuids were drawn before
MissingIds(subs, i) == Cardinality({j \in 1..i : subs[j].id = None})
Subtask(s, k) ==
    [id |-> IF s.id = None THEN uuid4(k) ELSE s.id[1],
     text |-> s.text,
     completed |-> s.completed]
ParseSubtasks(subs, k) ==
    [i \in 1..Len(subs) |-> Subtask(subs[i], k + MissingIds(subs, i))]

\* mutant of Task: the two clock readings land in each other's field
TaskStampsSwapped(task_dict, id, created_at, updated_at) ==
    [id |-> id,
     title |-> task_dict.title,
     description |-> task_dict.description,
     due_date |-> task_dict.due_date,
     priority |-> task_dict.priority,
     category |-> task_dict.category,
     status |-> task_dict.status,
     subtasks |-> task_dict.subtasks,
     created_at |-> updated_at,
     updated_at |-> created_at]

\* Task(**task_dict): id, created_at and updated_at come from the default factories
Task(task_dict, id, created_at, updated_at) ==
    [id |-> id,
     title |-> task_dict.title,
     description |-> task_dict.description,
     due_date |-> task_dict.due_date,
     priority |-> task_dict.priority,
     category |-> task_dict.category,
     status |-> task_dict.status,
     subtasks |-> task_dict.subtasks,
     created_at |-> created_at,
     updated_at |-> updated_at]

\* ---------------------------------------------------------- store calls
\* the documents a query {"id": task_id} matches
FindById(task_id) == {doc \in db : doc.id = task_id}

\* find_one: one matching document, or None
FindOne(task_id) == IF FindById(task_id) = {} THEN {None} ELSE {Some(doc) : doc \in FindById(task_id)}

UpdatableFields == {"title", "description", "due_date", "priority", "category", "status", "subtasks"}

\* {k: v for k, v in task_update.dict().items() if v is not None}
SuppliedFields(task_update) == {k \in UpdatableFields : task_update[k] # None}

\* {"$set": update_dict} applied to one document
SetFields(doc, task_update, updated_at) ==
    [id |-> doc.id,
     title |-> IF "title" \in SuppliedFields(task_update) THEN task_update.title[1] ELSE doc.title,
     description |-> IF "description" \in SuppliedFields(task_update)
                     THEN task_update.description[1] ELSE doc.description,
     due_date |-> IF "due_date" \in SuppliedFields(task_update)
                  THEN Some(task_update.due_date[1]) ELSE doc.due_date,
     priority |-> IF "priority" \in SuppliedFields(task_update)
                  THEN task_update.priority[1] ELSE doc.priority,
     category |-> IF "category" \in SuppliedFields(task_update)
                  THEN task_update.category[1] ELSE doc.category,
     status |-> IF "status" \in SuppliedFields(task_update)
                THEN task_update.status[1] ELSE doc.status,
     subtasks |-> IF "subtasks" \in SuppliedFields(task_update)
                  THEN task_update.subtasks[1] ELSE doc.subtasks,
     created_at |-> doc.created_at,
     updated_at |-> updated_at]

\* result.modified_count of an update_one that matched `doc` and left `new`
ModifiedCount(doc, new) == IF new # doc THEN 1 ELSE 0

\* mutant of MatchesSubtask: the query names the Task only
MatchesTaskOnly(doc, task_id, subtask_id) == doc.id = task_id

\* the query {"id": task_id, "subtasks.id": subtask_id}
MatchesSubtask(doc, task_id, subtask_id) ==
    /\ doc.id = task_id
    /\ \E i \in 1..Len(doc.subtasks) : doc.subtasks[i].id = subtask_id

\* mutant of IsPositional: every matching element is written (as by $[])
IsAnyMatch(doc, subtask_id, i) == doc.subtasks[i].id = subtask_id

\* the array position the positional operator $ stands for: the first match
IsPositional(doc, subtask_id, i) ==
    /\ doc.subtasks[i].id = subtask_id
    /\ \A j \in 1..(i - 1) : doc.subtasks[j].id # subtask_id

\* {"$set": {"subtasks.$.completed": completed, "updated_at": ...}}
SetSubtask(doc, subtask_id, completed, updated_at) ==
    [doc EXCEPT
        !.subtasks = [i \in 1..Len(doc.subtasks) |->
                        IF IsPositional(doc, subtask_id, i)
                        THEN [doc.subtasks[i] EXCEPT !.completed = completed]
                        ELSE doc.subtasks[i]],
        !.updated_at = updated_at]

\* mutant of UpdateOneMiss: upsert is on, a document is made of the query and the $set
UpdateOneUpsert(task_id, task_update, updated_at) ==
    db \cup {[id |-> task_id,
              title |-> IF task_update.title # None THEN task_update.title[1] ELSE "",
              description |-> "",
              due_date |-> task_update.due_date,
              priority |-> IF task_update.priority # None THEN task_update.priority[1] ELSE MEDIUM,
              category |-> "",
              status |-> IF task_update.status # None THEN task_update.status[1] ELSE TODO,
              subtasks |-> <<>>,
              created_at |-> updated_at,
              updated_at |-> updated_at]}

\* the collection after an update_one that matched no document: upsert is off
UpdateOneMiss(task_id, task_update, updated_at) == db

\* the collection after update_one replaced `doc` by `new`
Replace(doc, new) == (db \ {doc}) \cup {new}

\* ------------------------------------------------------------ requests
NoRequest == [op |-> "none"]

\* the requests between their first and their last counting query
Counting == {c \in Clients : pc[c] \in {"stats_todo", "stats_in_progress", "stats_done",
                                         "stats_high", "stats_overdue"}}

\* the store call of client c leaves the collection `after`; the handler goes on to
\* await the call `at`
Await(c, after, at, request, locals, w) ==
    /\ db' = after
    /\ pc' = [pc EXCEPT ![c] = at]
    /\ req' = [req EXCEPT ![c] = request]
    /\ loc' = [loc EXCEPT ![c] = locals]
    /\ sent' = None
    /\ wrote' = [wrote EXCEPT ![c] = w]
    /\ dirty' = [k \in Clients |-> dirty[k] \/ (k # c /\ k \in Counting /\ after # db)]

\* the store call of client c leaves the collection `after`; the handler returns
\* or raises, which sends `response`
Respond(c, after, request, response, w) ==
    /\ db' = after
    /\ pc' = [pc EXCEPT ![c] = "idle"]
    /\ req' = [req EXCEPT ![c] = NoRequest]
    /\ loc' = [loc EXCEPT ![c] = None]
    /\ sent' = Some([client |-> c, request |-> request, response |-> response,
                     wrote |-> w, dirty |-> dirty[c]])
    /\ wrote' = [wrote EXCEPT ![c] = FALSE]
    /\ dirty' = [k \in Clients |->
                    IF k = c THEN FALSE ELSE dirty[k] \/ (k \in Counting /\ after # db)]

\* the clock advances
Tick ==
    /\ now < MaxClock
    /\ now' = now + 1
    /\ sent' = None
    /\ UNCHANGED <<db, uuids, pc, req, loc, deleted, wrote, dirty>>

\* ---------------------------------------------------- POST /tasks
\* create_task up to `await db.tasks.insert_one`: the body is parsed (each Subtask
\* draws its missing id), then Task(**task_dict) draws id, created_at and updated_at,
\* two readings of the clock
CreateTask(c, task_input) ==
    /\ pc[c] = "idle"
    /\ uuids + MissingIds(task_input.subtasks, Len(task_input.subtasks)) < MaxUuid
    /\ \E updated_at \in {now, now + 1} :
        /\ updated_at <= MaxClock
        /\ now' = updated_at
        /\ LET n == MissingIds(task_input.subtasks, Len(task_input.subtasks))
               task_dict == [task_input EXCEPT !.subtasks = ParseSubtasks(task_input.subtasks, uuids)]
               task_obj == Task(task_dict, uuid4(uuids + n + 1), now, updated_at)
           IN /\ uuids' = uuids + n + 1
              /\ Await(c, db, "insert_one", [op |-> "create_task"], Some(task_obj), FALSE)
    /\ UNCHANGED deleted

\* insert_one is applied; result.inserted_id is the new document's _id
CreateInsert(c) ==
    /\ pc[c] = "insert_one"
    /\ Respond(c, db \cup {loc[c][1]}, req[c], Ok(loc[c][1]), TRUE)
    /\ UNCHANGED <<now, uuids, deleted>>

\* ---------------------------------------------------- GET /tasks/{task_id}
GetTask(c, task_id) ==
    /\ pc[c] = "idle"
    /\ \E task \in FindOne(task_id) :
        Respond(c, db, [op |-> "get_task", task_id |-> task_id],
                IF task = None THEN HTTPException(404, "Task not found") ELSE Ok(task[1]),
                FALSE)
    /\ UNCHANGED <<now, uuids, deleted>>

\* ---------------------------------------------------- DELETE /tasks/{task_id}
\* what delete_one leaves of the collection when it removes `doc`
DeleteOne(doc) == db \ {doc}

\* delete_one removes one matching document, if any; deleted_count tells
DeleteTask(c, task_id) ==
    /\ pc[c] = "idle"
    /\ LET request == [op |-> "delete_task", task_id |-> task_id]
       IN IF FindById(task_id) = {}
          THEN /\ Respond(c, db, request, HTTPException(404, "Task not found"), FALSE)
               /\ UNCHANGED deleted
          ELSE \E doc \in FindById(task_id) :
               /\ Respond(c, DeleteOne(doc), request,
                          Ok("Task deleted successfully"), TRUE)
               /\ deleted' = deleted \cup {task_id}
    /\ UNCHANGED <<now, uuids>>

\* ---------------------------------------------------- PUT /tasks/{task_id}
\* the body is parsed into TaskUpdate (a supplied subtask list draws its missing
\* ids) and find_one is applied; the handler builds update_dict and stamps updated_at
UpdateTask(c, task_id, task_update) ==
    /\ pc[c] = "idle"
    /\ LET subs == IF task_update.subtasks = None THEN <<>> ELSE task_update.subtasks[1]
           n == MissingIds(subs, Len(subs))
           request == [op |-> "update_task", task_id |-> task_id,
                       task_update |-> IF task_update.subtasks = None THEN task_update
                                       ELSE [task_update EXCEPT
                                               !.subtasks = Some(ParseSubtasks(subs, uuids))]]
       IN /\ uuids + n <= MaxUuid
          /\ uuids' = uuids + n
          /\ \E task \in FindOne(task_id) :
                IF task = None
                THEN Respond(c, db, request, HTTPException(404, "Task not found"), FALSE)
                ELSE Await(c, db, "update_one", request, Some([updated_at |-> now]), FALSE)
    /\ UNCHANGED <<now, deleted>>

\* update_one({"id": task_id}, {"$set": update_dict}) is applied
UpdateWrite(c) ==
    /\ pc[c] = "update_one"
    /\ IF FindById(req[c].task_id) = {}
       THEN Respond(c, UpdateOneMiss(req[c].task_id, req[c].task_update, loc[c][1].updated_at),
                    req[c], HTTPException(500, "Failed to update task"), FALSE)
       ELSE \E doc \in FindById(req[c].task_id) :
            LET new == SetFields(doc, req[c].task_update, loc[c][1].updated_at)
            IN IF ModifiedCount(doc, new) = 1
               THEN Await(c, Replace(doc, new), "update_find_one", req[c], None, new # doc)
               ELSE Respond(c, Replace(doc, new), req[c],
                            HTTPException(500, "Failed to update task"), new # doc)
    /\ UNCHANGED <<now, uuids, deleted>>

\* the second find_one is applied; Task(**updated_task) raises TypeError on None
UpdateReread(c) ==
    /\ pc[c] = "update_find_one"
    /\ \E updated_task \in FindOne(req[c].task_id) :
        Respond(c, db, req[c],
                IF updated_task = None THEN Unhandled ELSE Ok(updated_task[1]),
                wrote[c])
    /\ UNCHANGED <<now, uuids, deleted>>

\* ------------------------------- PUT /tasks/{task_id}/subtasks/{subtask_id}
\* find_one is applied; the handler stamps updated_at for the write
UpdateSubtask(c, task_id, subtask_id, completed) ==
    /\ pc[c] = "idle"
    /\ LET request == [op |-> "update_subtask", task_id |-> task_id,
                       subtask_id |-> subtask_id, completed |-> completed]
       IN \E task \in FindOne(task_id) :
            IF task = None
            THEN Respond(c, db, request, HTTPException(404, "Task not found"), FALSE)
            ELSE Await(c, db, "subtask_update_one", request, Some([updated_at |-> now]), FALSE)
    /\ UNCHANGED <<now, uuids, deleted>>

\* update_one({"id": task_id, "subtasks.id": subtask_id}, {"$set": ...}) is applied
SubtaskWrite(c) ==
    /\ pc[c] = "subtask_update_one"
    /\ LET matched == {doc \in db : MatchesSubtask(doc, req[c].task_id, req[c].subtask_id)}
       IN IF matched = {}
          THEN Respond(c, db, req[c], HTTPException(404, "Subtask not found"), FALSE)
          ELSE \E doc \in matched :
               LET new == SetSubtask(doc, req[c].subtask_id, req[c].completed,
                                     loc[c][1].updated_at)
               IN IF ModifiedCount(doc, new) = 1
                  THEN Await(c, Replace(doc, new), "subtask_find_one", req[c], None, new # doc)
                  ELSE Respond(c, Replace(doc, new), req[c],
                               HTTPException(404, "Subtask not found"), new # doc)
    /\ UNCHANGED <<now, uuids, deleted>>

SubtaskReread(c) ==
    /\ pc[c] = "subtask_find_one"
    /\ \E updated_task \in FindOne(req[c].task_id) :
        Respond(c, db, req[c],
                IF updated_task = None THEN Unhandled ELSE Ok(updated_task[1]),
                wrote[c])
    /\ UNCHANGED <<now, uuids, deleted>>

\* ---------------------------------------------------- GET /tasks
ListCap == 1000

\* `if status:` and its like: None and the empty string are falsy
Truthy(v) == v # None /\ v[1] # ""

\* filter_dict, built from the three optional query parameters
FilterDict(query) ==
    [k \in {k \in {"status", "priority", "category"} : Truthy(query[k])} |-> query[k][1]]

\* find(filter_dict): every key of the filter equals the document's field
Matches(doc, filter_dict) == \A k \in DOMAIN filter_dict : doc[k] = filter_dict[k]

\* sort("created_at", -1): the orders of `docs` the cursor may yield
SortedDescending(docs) ==
    {s \in [1..Cardinality(docs) -> docs] :
        /\ \A i, j \in 1..Cardinality(docs) : i # j => s[i] # s[j]
        /\ \A i, j \in 1..Cardinality(docs) : i < j => s[i].created_at >= s[j].created_at}

\* to_list(length): at most `length` documents of the cursor
ToList(s, length) == SubSeq(s, 1, IF Len(s) < length THEN Len(s) ELSE length)

GetTasks(c, query) ==
    /\ pc[c] = "idle"
    /\ \E s \in SortedDescending({doc \in db : Matches(doc, FilterDict(query))}) :
        Respond(c, db, [op |-> "get_tasks", query |-> query], Ok(ToList(s, ListCap)), FALSE)
    /\ UNCHANGED <<now, uuids, deleted>>

\* ---------------------------------------------------- GET /tasks/stats/dashboard
\* count_documents(filter)
Count(P(_)) == Cardinality({doc \in db : P(doc)})

IsAny(doc) == TRUE
\* mutant of IsTodo: the query counts every Task that is not Done
IsNotDone(doc) == doc.status # DONE
IsTodo(doc) == doc.status = TODO
IsInProgress(doc) == doc.status = IN_PROGRESS
IsDone(doc) == doc.status = DONE
IsHigh(doc) == doc.priority = HIGH
\* mutant of IsOverdue: the query leaves out the status
IsPastDue(doc, t) == doc.due_date # None /\ doc.due_date[1] < t
\* {"due_date": {"$lt": t}, "status": {"$ne": DONE}}: $lt matches no null field
IsOverdue(doc, t) == doc.due_date # None /\ doc.due_date[1] < t /\ doc.status # DONE

\* a counting query is applied; the handler goes on to await the next one
StatsStep(c, at, next, locals) ==
    /\ pc[c] = at
    /\ Await(c, db, next, [op |-> "get_dashboard_stats"], Some(locals), FALSE)
    /\ UNCHANGED <<now, uuids, deleted>>

StatsTotal(c) ==
    StatsStep(c, "idle", "stats_todo", [total_tasks |-> Count(IsAny)])

StatsTodo(c) ==
    StatsStep(c, "stats_todo", "stats_in_progress",
              [total_tasks |-> loc[c][1].total_tasks, todo_count |-> Count(IsTodo)])

StatsInProgress(c) ==
    StatsStep(c, "stats_in_progress", "stats_done",
              [total_tasks |-> loc[c][1].total_tasks, todo_count |-> loc[c][1].todo_count,
               in_progress_count |-> Count(IsInProgress)])

StatsDone(c) ==
    StatsStep(c, "stats_done", "stats_high",
              [total_tasks |-> loc[c][1].total_tasks, todo_count |-> loc[c][1].todo_count,
               in_progress_count |-> loc[c][1].in_progress_count,
               done_count |-> Count(IsDone)])

\* the fifth count is applied; the handler reads the clock for the overdue query
StatsHigh(c) ==
    StatsStep(c, "stats_high", "stats_overdue",
              [total_tasks |-> loc[c][1].total_tasks, todo_count |-> loc[c][1].todo_count,
               in_progress_count |-> loc[c][1].in_progress_count,
               done_count |-> loc[c][1].done_count,
               high_priority_count |-> Count(IsHigh), utcnow |-> now])

StatsOverdue(c) ==
    /\ pc[c] = "stats_overdue"
    /\ LET IsOverdueNow(doc) == IsOverdue(doc, loc[c][1].utcnow)
       IN Respond(c, db, [op |-> "get_dashboard_stats", utcnow |-> loc[c][1].utcnow],
                  Ok([total_tasks |-> loc[c][1].total_tasks,
                      todo_count |-> loc[c][1].todo_count,
                      in_progress_count |-> loc[c][1].in_progress_count,
                      done_count |-> loc[c][1].done_count,
                      high_priority_count |-> loc[c][1].high_priority_count,
                      overdue_count |-> Count(IsOverdueNow)]),
                  FALSE)
    /\ UNCHANGED <<now, uuids, deleted>>

\* ------------------------------------------------------------- inputs
\* request bodies and parameters the clients send: bounded samples of what the
\* pydantic models TaskCreate, TaskUpdate and Subtask accept
SubA == [id |-> Some("s1"), text |-> "a", completed |-> FALSE]
SubB == [id |-> Some("s2"), text |-> "b", completed |-> FALSE]
SubA2 == [id |-> Some("s1"), text |-> "b", completed |-> FALSE]
SubNew == [id |-> None, text |-> "a", completed |-> FALSE]

TaskCreate(due_dates, priorities, categories, statuses, subtask_lists) ==
    [title : {"t1"}, description : {""}, due_date : due_dates, priority : priorities,
     category : categories, status : statuses, subtasks : subtask_lists]

TaskUpdate(titles, due_dates, priorities, categories, statuses, subtask_lists) ==
    [title : titles, description : {None}, due_date : due_dates, priority : priorities,
     category : categories, status : statuses, subtasks : subtask_lists]

Query(statuses, priorities, categories) ==
    [status : statuses, priority : priorities, category : categories]

\* the requests of Spec: the writers and readers of one Task, racing
Requests ==
    [create |-> TaskCreate({None}, {MEDIUM}, {""}, {TODO}, {<<SubA, SubB>>, <<SubA, SubA2>>}),
     update |-> TaskUpdate({None}, {None}, {None}, {None}, {None, Some(DONE)}, {None}),
     subtask_ids |-> {"s1", "s2"},
     completed |-> {TRUE}]

\* the requests of SpecStats: the dashboard counts, racing with writers
StatsRequests ==
    [create |-> TaskCreate({None, Some(0)}, {MEDIUM}, {""}, {TODO, IN_PROGRESS}, {<<>>}),
     update |-> TaskUpdate({None}, {None}, {None}, {None}, {Some(DONE)}, {None})]

\* the requests of SpecSeq: one client, one request at a time, more of each body
SeqRequests ==
    [create |-> TaskCreate({None}, {MEDIUM}, {"", "work"}, {TODO, DONE},
                           {<<>>, <<SubA, SubA2>>, <<SubNew>>}),
     update |-> TaskUpdate({None, Some("t2")}, {None}, {None}, {None},
                           {None, Some(DONE)}, {None, Some(<<>>)}),
     subtask_ids |-> {"s1", "s2"},
     completed |-> BOOLEAN,
     query |-> Query(Opt({DONE}), {None}, Opt({"", "work"}))]

\* --------------------------------------------------------- specification
Init ==
    /\ db = {}
    /\ now = 0
    /\ uuids = 0
    /\ pc = [c \in Clients |-> "idle"]
    /\ req = [c \in Clients |-> NoRequest]
    /\ loc = [c \in Clients |-> None]
    /\ sent = None
    /\ deleted = {}
    /\ wrote = [c \in Clients |-> FALSE]
    /\ dirty = [c \in Clients |-> FALSE]

\* create_task, get_task, update_task, delete_task and update_subtask, concurrently
Next ==
    \/ Tick
    \/ \E c \in Clients :
        \/ \E task_input \in Requests.create : CreateTask(c, task_input)
        \/ CreateInsert(c)
        \/ \E task_id \in TaskIds : GetTask(c, task_id)
        \/ \E task_id \in TaskIds, task_update \in Requests.update :
              UpdateTask(c, task_id, task_update)
        \/ UpdateWrite(c)
        \/ UpdateReread(c)
        \/ \E task_id \in TaskIds : DeleteTask(c, task_id)
        \/ \E task_id \in TaskIds, subtask_id \in Requests.subtask_ids,
              completed \in Requests.completed :
              UpdateSubtask(c, task_id, subtask_id, completed)
        \/ SubtaskWrite(c)
        \/ SubtaskReread(c)

Spec == Init /\ [][Next]_vars

\* get_dashboard_stats, concurrently with create_task, update_task and delete_task
NextStats ==
    \/ Tick
    \/ \E c \in Clients :
        \/ \E task_input \in StatsRequests.create : CreateTask(c, task_input)
        \/ CreateInsert(c)
        \/ \E task_id \in TaskIds, task_update \in StatsRequests.update :
              UpdateTask(c, task_id, task_update)
        \/ UpdateWrite(c)
        \/ UpdateReread(c)
        \/ \E task_id \in TaskIds : DeleteTask(c, task_id)
        \/ StatsTotal(c)
        \/ StatsTodo(c)
        \/ StatsInProgress(c)
        \/ StatsDone(c)
        \/ StatsHigh(c)
        \/ StatsOverdue(c)

SpecStats == Init /\ [][NextStats]_vars

\* every handler, one request at a time
NextSeq ==
    \/ Tick
    \/ \E c \in {1} :
        \/ \E task_input \in SeqRequests.create : CreateTask(c, task_input)
        \/ CreateInsert(c)
        \/ \E task_id \in TaskIds : GetTask(c, task_id)
        \/ \E query \in SeqRequests.query : GetTasks(c, query)
        \/ \E task_id \in TaskIds, task_update \in SeqRequests.update :
              UpdateTask(c, task_id, task_update)
        \/ UpdateWrite(c)
        \/ UpdateReread(c)
        \/ \E task_id \in TaskIds : DeleteTask(c, task_id)
        \/ \E task_id \in TaskIds, subtask_id \in SeqRequests.subtask_ids,
              completed \in SeqRequests.completed :
              UpdateSubtask(c, task_id, subtask_id, completed)
        \/ SubtaskWrite(c)
        \/ SubtaskReread(c)
        \/ StatsTotal(c)
        \/ StatsTodo(c)
        \/ StatsInProgress(c)
        \/ StatsDone(c)
        \/ StatsHigh(c)
        \/ StatsOverdue(c)

SpecSeq == Init /\ [][NextSeq]_vars

\* ---------------------------------------------------------- properties
Ids(docs) == {doc.id : doc \in docs}

\* the last step sent the response of a request `op`
SentIs(op) == sent # None /\ sent[1].request.op = op

\* the value a supplied field v of a TaskUpdate stores in the document
Stored(k, v) == IF k = "due_date" THEN Some(v) ELSE v

QueryFields == {"status", "priority", "category"}

\* C1 (first half, which holds): an update_one of update_task that modified the
\* document set every supplied field to the supplied value and updated_at to the
\* handler's reading of the clock, and left every other field, id and created_at
\* included, as it was.
UpdateTaskFrame ==
    [][\A c \in Clients :
        (pc[c] = "update_one" /\ pc'[c] = "update_find_one") =>
            \A doc \in FindById(req[c].task_id) :
                \E new \in db' :
                    /\ new.id = doc.id
                    /\ new.created_at = doc.created_at
                    /\ new.updated_at = loc[c][1].updated_at
                    /\ \A k \in UpdatableFields :
                        new[k] = IF req[c].task_update[k] # None
                                 THEN Stored(k, req[c].task_update[k][1])
                                 ELSE doc[k]]_vars

\* C1: a successful update(id, partial) sets each supplied field, refreshes
\* updated_at and leaves the absent fields, id and created_at unchanged; and
\* update(id, {}) on an existing Task succeeds: its write is accepted and the
\* handler goes on to return the Task.
C1_UpdateSetsSuppliedAndEmptySucceeds ==
    [][\A c \in Clients :
        (pc[c] = "update_one" /\ pc'[c] # "update_one") =>
            \A doc \in FindById(req[c].task_id) :
                /\ SuppliedFields(req[c].task_update) = {} => pc'[c] = "update_find_one"
                /\ pc'[c] = "update_find_one" =>
                    \E new \in db' :
                        /\ new.id = doc.id
                        /\ new.created_at = doc.created_at
                        /\ new.updated_at = loc[c][1].updated_at
                        /\ \A k \in UpdatableFields :
                            new[k] = IF req[c].task_update[k] # None
                                     THEN Stored(k, req[c].task_update[k][1])
                                     ELSE doc[k]]_vars

\* C2: when the update_one of updateSubtask(taskId, subtaskId, completed) is
\* applied to a collection whose Task taskId holds no subtask with id subtaskId,
\* the request fails with 404 "Subtask not found" and the collection, so every
\* field of the Task, is what it was.
C2_UnknownSubtaskNotFound ==
    [][\A c \in Clients :
        ( /\ pc[c] = "subtask_update_one"
          /\ pc'[c] # "subtask_update_one"
          /\ FindById(req[c].task_id) # {}
          /\ \A doc \in FindById(req[c].task_id) :
                \A i \in 1..Len(doc.subtasks) : doc.subtasks[i].id # req[c].subtask_id )
        => /\ sent' = Some([client |-> c, request |-> req[c],
                            response |-> HTTPException(404, "Subtask not found"),
                            wrote |-> FALSE, dirty |-> FALSE])
           /\ db' = db]_vars

\* C2's case: updateSubtask was answered 404 "Subtask not found" for a stored Task
\* that has subtasks, none of them with the requested id
C2_Witness ==
    /\ SentIs("update_subtask")
    /\ sent[1].response = HTTPException(404, "Subtask not found")
    /\ \E doc \in db :
        /\ doc.id = sent[1].request.task_id
        /\ Len(doc.subtasks) > 0
        /\ \A i \in 1..Len(doc.subtasks) : doc.subtasks[i].id # sent[1].request.subtask_id

\* C3: the update_one of a successful updateSubtask replaces the Task by one in
\* which a subtask whose id is subtaskId has completed = the given boolean (its id
\* and text kept), updated_at is the handler's reading of the clock, and every other
\* subtask, the length and order of the sequence and every other field are as
\* before; and the Task a 200 response returns is the stored Task with that id.
C3_SubtaskUpdateFrame ==
    [][\A c \in Clients :
        /\ (pc[c] = "subtask_update_one" /\ pc'[c] = "subtask_find_one") =>
            \E doc \in db, new \in db' :
                /\ doc.id = req[c].task_id
                /\ db' = (db \ {doc}) \cup {new}
                /\ Len(new.subtasks) = Len(doc.subtasks)
                /\ \E i \in 1..Len(doc.subtasks) :
                    /\ doc.subtasks[i].id = req[c].subtask_id
                    /\ new.subtasks[i] = [id |-> doc.subtasks[i].id,
                                          text |-> doc.subtasks[i].text,
                                          completed |-> req[c].completed]
                    /\ \A j \in 1..Len(doc.subtasks) :
                        j # i => new.subtasks[j] = doc.subtasks[j]
                /\ new.updated_at = loc[c][1].updated_at
                /\ new = [doc EXCEPT !.subtasks = new.subtasks, !.updated_at = new.updated_at]
        /\ (pc[c] = "subtask_find_one" /\ pc'[c] = "idle" /\ sent'[1].response.code = 200) =>
            /\ sent'[1].response.body[1] \in db'
            /\ sent'[1].response.body[1].id = req[c].task_id]_vars

\* C3's case: updateSubtask(taskId, "s1", true) returned a Task whose subtask "s1"
\* is completed and whose subtask "s2" is not
C3_Witness ==
    /\ SentIs("update_subtask")
    /\ sent[1].response.code = 200
    /\ sent[1].request.subtask_id = "s1"
    /\ LET task == sent[1].response.body[1]
       IN /\ task \in db
          /\ Len(task.subtasks) = 2
          /\ task.subtasks[1].id = "s1" /\ task.subtasks[1].completed
          /\ task.subtasks[2].id = "s2" /\ ~task.subtasks[2].completed

\* C4: list returns exactly the Tasks whose stored fields equal every filter that
\* is present, each once, ordered by created_at descending (the empty sequence
\* when none matches).
C4_ListReturnsExactlyMatching ==
    SentIs("get_tasks") =>
        LET query == sent[1].request.query
            result == sent[1].response.body[1]
            expected == {doc \in db :
                            \A k \in QueryFields : query[k] # None => doc[k] = query[k][1]}
        IN /\ sent[1].response.code = 200
           /\ {result[i] : i \in 1..Len(result)} = expected
           /\ Len(result) = Cardinality(expected)
           /\ \A i, j \in 1..Len(result) :
                i < j => result[i].created_at >= result[j].created_at

\* C5: no Task whose delete answered 200 is in the collection again, whatever
\* requests interleave; a get(id) after that delete fails with 404; and a
\* delete(id) applied when no Task has that id fails with 404 and leaves the
\* collection unchanged.
C5_DeletedNeverReappears ==
    /\ [](\A doc \in db : doc.id \notin deleted)
    /\ []((SentIs("get_task") /\ sent[1].request.task_id \in deleted)
            => sent[1].response = HTTPException(404, "Task not found"))
    /\ [][\A c \in Clients :
            ( /\ pc[c] = "idle"
              /\ sent' # None
              /\ sent'[1].client = c
              /\ sent'[1].request.op = "delete_task"
              /\ FindById(sent'[1].request.task_id) = {} )
            => /\ sent'[1].response = HTTPException(404, "Task not found")
               /\ db' = db
               /\ deleted' = deleted]_vars

\* C5's case: get(id) was answered 404 after delete(id) succeeded, while an update
\* or updateSubtask of the same id, which read the Task before the delete, is
\* still to write
C5_Witness ==
    /\ SentIs("get_task")
    /\ sent[1].request.task_id \in deleted
    /\ sent[1].response.code = 404
    /\ \E c \in Clients :
        /\ pc[c] \in {"update_one", "subtask_update_one"}
        /\ req[c].task_id = sent[1].request.task_id

\* C6: every stored Task has created_at <= updated_at; no two stored Tasks share
\* an id; a document enters the collection only as the Task create_task built
\* (with the id and created_at drawn then), and no step changes the created_at of
\* the Task with a given id.
C6_TimestampsAndIds ==
    /\ [](\A doc \in db : doc.created_at <= doc.updated_at)
    /\ [](\A d1, d2 \in db : d1.id = d2.id => d1 = d2)
    /\ [][ /\ \A doc \in db, new \in db' :
                new.id = doc.id => new.created_at = doc.created_at
           /\ \A new \in db' :
                new.id \notin Ids(db) => \E c \in Clients :
                    /\ pc[c] = "insert_one"
                    /\ new = loc[c][1]
                    /\ db' = db \cup {new} ]_vars

\* C6's case: two Tasks are stored, one of them updated (by update and by
\* updateSubtask) after the clock advanced past its creation
C6_Witness ==
    \E d1, d2 \in db :
        /\ d1.id # d2.id
        /\ d1.created_at < d1.updated_at
        /\ d1.status = DONE
        /\ d1.subtasks[1].completed

\* C7: within each stored Task no two subtasks share an id.
C7_SubtaskIdsUnique ==
    \A doc \in db :
        \A i, j \in 1..Len(doc.subtasks) :
            i # j => doc.subtasks[i].id # doc.subtasks[j].id

\* C8: the overdue_count of a dashboardStats call during which no write ran is
\* the number of stored Tasks with a due_date earlier than the time the call read
\* from the clock and a status other than Done; Tasks without due_date are not
\* counted.
C8_OverdueCount ==
    (SentIs("get_dashboard_stats") /\ ~sent[1].dirty) =>
        /\ sent[1].response.code = 200
        /\ sent[1].response.body[1].overdue_count =
            Cardinality({doc \in db :
                            /\ doc.due_date # None
                            /\ doc.due_date[1] < sent[1].request.utcnow
                            /\ doc.status \in {TODO, IN_PROGRESS}})

\* C8's case: with no write during the call, the count is 1 for a collection that
\* holds an overdue Task, a Task with the same past due_date that was updated to
\* Done, and so is not counted
C8_Witness ==
    /\ SentIs("get_dashboard_stats")
    /\ ~sent[1].dirty
    /\ sent[1].response.body[1].overdue_count = 1
    /\ \E d1, d2 \in db :
        /\ d1.due_date # None /\ d1.due_date[1] < sent[1].request.utcnow /\ d1.status = TODO
        /\ d2.due_date # None /\ d2.due_date[1] < sent[1].request.utcnow /\ d2.status = DONE
        /\ d2.created_at < d2.updated_at

\* an update_task request of client c fails on the answer of its first find_one
UpdateReadFails(c) ==
    /\ pc[c] = "idle"
    /\ sent' # None
    /\ sent'[1].client = c
    /\ sent'[1].request.op = "update_task"

\* C9 as stated: update fails with 404 when no Task has the id; a failed update
\* has left the collection unchanged; and an update whose Task is gone when its
\* write is applied reports 404 NotFound.
C9_ConcurrentDeleteReportsNotFound ==
    /\ [](SentIs("update_task") /\ sent[1].response.code # 200 => ~sent[1].wrote)
    /\ [][\A c \in Clients :
            /\ (UpdateReadFails(c) /\ FindById(sent'[1].request.task_id) = {}) =>
                    sent'[1].response.code = 404
            /\ (pc[c] = "update_one" /\ pc'[c] # "update_one"
                    /\ FindById(req[c].task_id) = {}) =>
                    (sent'[1].response.code = 404 /\ db' = db)]_vars

\* C9 as amended: update fails with 404 "Task not found" when no Task has the id
\* as it reads; an update that failed with 404 or with 500 "Failed to update task"
\* has left the collection unchanged; and an update whose Task is gone when its
\* write is applied reports 500 "Failed to update task", and writes nothing.
C9_ConcurrentDeleteReportsPersistenceError ==
    /\ []((SentIs("update_task")
            /\ sent[1].response \in {HTTPException(404, "Task not found"),
                                     HTTPException(500, "Failed to update task")})
            => ~sent[1].wrote)
    /\ [][\A c \in Clients :
            /\ (UpdateReadFails(c) /\ FindById(sent'[1].request.task_id) = {}) =>
                    (sent'[1].response = HTTPException(404, "Task not found") /\ db' = db)
            /\ (pc[c] = "update_one" /\ pc'[c] # "update_one"
                    /\ FindById(req[c].task_id) = {}) =>
                    (sent'[1].response = HTTPException(500, "Failed to update task")
                     /\ db' = db)]_vars

\* C9's case: an update read its Task, a concurrent delete removed it, and the
\* update's write then failed with 500 "Failed to update task"
C9_Witness ==
    /\ SentIs("update_task")
    /\ sent[1].response = HTTPException(500, "Failed to update task")
    /\ sent[1].request.task_id \in deleted
    /\ FindById(sent[1].request.task_id) = {}

\* the three status counts of a dashboardStats response add up to its total
CountsAddUp(stats) ==
    stats.todo_count + stats.in_progress_count + stats.done_count = stats.total_tasks

\* C10: the counts of a dashboardStats call between whose counting queries no write
\* was applied satisfy todo_count + in_progress_count + done_count = total_tasks.
C10_CountsAddUpWithoutWrites ==
    (SentIs("get_dashboard_stats") /\ ~sent[1].dirty) =>
        CountsAddUp(sent[1].response.body[1])

\* C10's existential half: a dashboardStats call, with a write of another request
\* applied between its counting queries, returned counts that do not add up
C10_Witness ==
    /\ SentIs("get_dashboard_stats")
    /\ sent[1].dirty
    /\ ~CountsAddUp(sent[1].response.body[1])

\* a dashboardStats call with no write between its counting queries counted Tasks
\* of all three statuses
CleanStatsReached ==
    /\ SentIs("get_dashboard_stats")
    /\ ~sent[1].dirty
    /\ sent[1].response.body[1].todo_count + sent[1].response.body[1].in_progress_count > 0
    /\ sent[1].response.body[1].done_count > 0

====
